---- MODULE Spec2Model ----
(***************************************************************************)
(* The auction server of backend/server.js: the in-memory auctionItems     *)
(* store, the socket.io handlers (connection, place-bid, disconnect) and   *)
(* the time-sync timer.  Node runs each handler to completion, so each     *)
(* handler is one action.  Values that come from a client payload are      *)
(* JavaScript values and keep JavaScript's semantics of +, < and ||.       *)
(*                                                                         *)
(* Time is in milliseconds since the module was loaded (Date.now() at      *)
(* load is 0).  The clock is taken to be non-decreasing; it may advance    *)
(* between two handlers and, by a bounded amount, between the two          *)
(* Date.now() calls of one place-bid handler.  The auctions' title,        *)
(* description and image are constant strings no handler reads; they are   *)
(* left out of the records.  A socket id stands for one connection at a    *)
(* time: a socket that connects after a disconnect may carry an id seen    *)
(* before.  The period of the time-sync timer is not tracked: the timer    *)
(* may fire at any instant.  A place-bid packet is an object: a packet     *)
(* with no object at all is not among the inputs.                          *)
(*                                                                         *)
(* Spec is the server with any socket.io clients.  ClientSpec is the       *)
(* server's connection handler and timer with one browser client, the      *)
(* App and AuctionCard components of the frontend showing the countdown of *)
(* the first auction; there the server clock and the browser clock run at  *)
(* the same rate, a fixed skew apart.                                      *)
(***************************************************************************)
EXTENDS Integers, Sequences, FiniteSets

VARIABLES
    now,            \* the value Date.now() returns
    auctionItems,   \* the auctionItems array (server.js 26-71)
    sockets,        \* ids of the sockets that are connected
    queue,          \* place-bid packets received, not yet handled (event queue)
    handled,        \* the event whose handler ran last
    emitted,        \* what that handler emitted, in order
    card            \* one browser's AuctionCard of the first auction (ClientSpec)

vars == <<now, auctionItems, sockets, queue, handled, emitted, card>>

----------------------------------------------------------------------------
(* JavaScript values *)

Num(n) == [t |-> "number", n |-> n, s |-> <<>>]
NaN == [t |-> "nan", n |-> 0, s |-> <<>>]
Undefined == [t |-> "undefined", n |-> 0, s |-> <<>>]
Null == [t |-> "null", n |-> 0, s |-> <<>>]
Str(s) == [t |-> "string", n |-> 0, s |-> s]

DigitChars == <<"0", "1", "2", "3", "4", "5", "6", "7", "8", "9">>

IsDigit(c) == \E i \in 1..10 : DigitChars[i] = c

DigitValue(c) == (CHOOSE i \in 1..10 : DigitChars[i] = c) - 1

\* UTF-16 code units of the characters the model's strings are made of
CharCode(c) ==
    CASE c = " " -> 32
      [] c = "$" -> 36
      [] c = "-" -> 45
      [] IsDigit(c) -> 48 + DigitValue(c)
      [] c = "A" -> 65
      [] c = "B" -> 66
      [] c = "C" -> 67
      [] c = "N" -> 78
      [] c = "a" -> 97
      [] c = "b" -> 98
      [] c = "c" -> 99
      [] c = "d" -> 100
      [] c = "e" -> 101
      [] c = "f" -> 102
      [] c = "i" -> 105
      [] c = "l" -> 108
      [] c = "n" -> 110
      [] c = "s" -> 115
      [] c = "u" -> 117
      [] OTHER -> 0

RECURSIVE NatToString(_)
NatToString(n) ==
    IF n < 10 THEN <<DigitChars[n + 1]>>
    ELSE NatToString(n \div 10) \o <<DigitChars[(n % 10) + 1]>>

\* ToString
ToString(v) ==
    CASE v.t = "string" -> v.s
      [] v.t = "number" -> IF v.n < 0 THEN <<"-">> \o NatToString(0 - v.n)
                           ELSE NatToString(v.n)
      [] v.t = "nan" -> <<"N", "a", "N">>
      [] v.t = "undefined" -> <<"u", "n", "d", "e", "f", "i", "n", "e", "d">>
      [] v.t = "null" -> <<"n", "u", "l", "l">>

RECURSIVE TrimLeft(_)
TrimLeft(s) == IF s # <<>> /\ Head(s) = " " THEN TrimLeft(Tail(s)) ELSE s

RECURSIVE TrimRight(_)
TrimRight(s) ==
    IF s # <<>> /\ s[Len(s)] = " " THEN TrimRight(SubSeq(s, 1, Len(s) - 1)) ELSE s

RECURSIVE DigitsToNat(_)
DigitsToNat(s) ==
    IF s = <<>> THEN 0
    ELSE 10 * DigitsToNat(SubSeq(s, 1, Len(s) - 1)) + DigitValue(s[Len(s)])

\* StringToNumber, for strings of letters, digits and blanks
StringToNumber(s) ==
    LET trimmed == TrimRight(TrimLeft(s))
    IN  IF \A i \in 1..Len(trimmed) : IsDigit(trimmed[i])
        THEN Num(DigitsToNat(trimmed))
        ELSE NaN

\* ToNumber
ToNumber(v) ==
    CASE v.t = "number" -> v
      [] v.t = "nan" -> NaN
      [] v.t = "undefined" -> NaN
      [] v.t = "null" -> Num(0)
      [] v.t = "string" -> StringToNumber(v.s)

\* a + b
Add(a, b) ==
    IF a.t = "string" \/ b.t = "string"
    THEN Str(ToString(a) \o ToString(b))
    ELSE LET x == ToNumber(a)
             y == ToNumber(b)
         IN  IF x.t = "nan" \/ y.t = "nan" THEN NaN ELSE Num(x.n + y.n)

RECURSIVE StringLess(_, _)
StringLess(s, u) ==
    IF u = <<>> THEN FALSE
    ELSE IF s = <<>> THEN TRUE
    ELSE IF CharCode(Head(s)) # CharCode(Head(u))
         THEN CharCode(Head(s)) < CharCode(Head(u))
    ELSE StringLess(Tail(s), Tail(u))

\* a < b
Less(a, b) ==
    IF a.t = "string" /\ b.t = "string"
    THEN StringLess(a.s, b.s)
    ELSE LET x == ToNumber(a)
             y == ToNumber(b)
         IN  IF x.t = "nan" \/ y.t = "nan" THEN FALSE ELSE x.n < y.n

\* a === b
StrictEquals(a, b) ==
    /\ a.t = b.t
    /\ a.t # "nan"
    /\ a.t = "number" => a.n = b.n
    /\ a.t = "string" => a.s = b.s

\* ToBoolean
Truthy(v) ==
    CASE v.t = "number" -> v.n # 0
      [] v.t = "string" -> v.s # <<>>
      [] OTHER -> FALSE

\* a || b
Or(a, b) == IF Truthy(a) THEN a ELSE b

----------------------------------------------------------------------------
(* The store *)

Auction(id, currentBid, minimumIncrement, endTime) ==
    [id |-> id,
     currentBid |-> Num(currentBid),
     minimumIncrement |-> Num(minimumIncrement),
     endTime |-> endTime,
     highestBidder |-> Null,
     bidHistory |-> <<>>]

InitialAuctionItems ==
    <<Auction(1, 150, 10, 900000),
      Auction(2, 500, 10, 1200000),
      Auction(3, 200, 10, 1500000),
      Auction(4, 80, 5, 1800000)>>

\* auctionItems.find(item => item.id === auctionId): the index, 0 for undefined
Find(items, auctionId) ==
    LET hits == {i \in 1..Len(items) : StrictEquals(Num(items[i].id), auctionId)}
    IN  IF hits = {} THEN 0 ELSE CHOOSE i \in hits : \A j \in hits : i <= j

\* HasEnded with the deadline instant itself still open
HasEndedStrictly(t, auction) == t > auction.endTime

\* HasEnded that closes the auction at the deadline instant only
HasEndedAtInstant(t, auction) == t = auction.endTime

\* Date.now() >= auction.endTime
HasEnded(t, auction) == t >= auction.endTime

\* MinimumBid from the price the auction was seeded with
SeedMinimumBid(auction) ==
    Add(InitialAuctionItems[auction.id].currentBid, auction.minimumIncrement)

\* const minimumBid = auction.currentBid + auction.minimumIncrement
MinimumBid(auction) == Add(auction.currentBid, auction.minimumIncrement)

\* BelowMinimum that also turns away a bid equal to the minimum
NotAboveMinimum(bidAmount, minimumBid) ==
    Less(bidAmount, minimumBid) \/ bidAmount = minimumBid

\* bidAmount < minimumBid
BelowMinimum(bidAmount, minimumBid) == Less(bidAmount, minimumBid)

\* bidderName || socket.id
BidderOf(data, socket) == Or(data.bidderName, Str(socket))

\* ApplyBid writing back a copy of the auction read before any bid (lost update)
ApplyBidToStaleCopy(auction, data, socket, t) ==
    [InitialAuctionItems[auction.id] EXCEPT
        !.currentBid = data.bidAmount,
        !.highestBidder = BidderOf(data, socket),
        !.bidHistory = Append(@, [amount |-> data.bidAmount,
                                  bidder |-> BidderOf(data, socket),
                                  timestamp |-> t])]

\* ApplyBid without the assignment to currentBid
ApplyBidKeepingPrice(auction, data, socket, t) ==
    [auction EXCEPT
        !.highestBidder = BidderOf(data, socket),
        !.bidHistory = Append(@, [amount |-> data.bidAmount,
                                  bidder |-> BidderOf(data, socket),
                                  timestamp |-> t])]

\* ApplyBid whose highestBidder is the bidderName as sent
ApplyBidRawName(auction, data, socket, t) ==
    [auction EXCEPT
        !.currentBid = data.bidAmount,
        !.highestBidder = data.bidderName,
        !.bidHistory = Append(@, [amount |-> data.bidAmount,
                                  bidder |-> BidderOf(data, socket),
                                  timestamp |-> t])]

\* ApplyBid with the deadline pushed back on every accepted bid
ApplyBidExtendingDeadline(auction, data, socket, t) ==
    [auction EXCEPT !.currentBid = data.bidAmount,
                    !.highestBidder = BidderOf(data, socket),
                    !.endTime = auction.endTime + 1,
                    !.bidHistory = Append(auction.bidHistory,
                                          [amount |-> data.bidAmount,
                                           bidder |-> BidderOf(data, socket),
                                           timestamp |-> t])]

\* the three assignments of the atomic update; t is the Date.now() of the push
ApplyBid(auction, data, socket, t) ==
    [auction EXCEPT
        !.currentBid = data.bidAmount,
        !.highestBidder = BidderOf(data, socket),
        !.bidHistory = Append(@, [amount |-> data.bidAmount,
                                  bidder |-> BidderOf(data, socket),
                                  timestamp |-> t])]

----------------------------------------------------------------------------
(* Events on the wire *)

\* socket.emit(event, payload)
SocketEmit(socket, event, payload) ==
    [event |-> event, to |-> {socket}, payload |-> payload]

\* io.emit(event, payload): to every socket connected at the time
IoEmit(connected, event, payload) ==
    [event |-> event, to |-> connected, payload |-> payload]

NotFoundError(data) ==
    [message |-> <<"Auction not found">>, auctionId |-> data.auctionId]

EndedError(data) ==
    [message |-> <<"Auction has ended">>, auctionId |-> data.auctionId]

\* TooLowError quoting the amount that was bid in place of the minimum
TooLowErrorQuotingBid(data, minimumBid) ==
    [message |-> <<"Bid must be at least $", ToString(data.bidAmount)>>,
     auctionId |-> data.auctionId,
     minimumBid |-> data.bidAmount]

TooLowError(data, minimumBid) ==
    [message |-> <<"Bid must be at least $", ToString(minimumBid)>>,
     auctionId |-> data.auctionId,
     minimumBid |-> minimumBid]

AuctionUpdate(data, auction) ==
    [auctionId |-> data.auctionId,
     currentBid |-> auction.currentBid,
     highestBidder |-> auction.highestBidder,
     bidHistory |-> auction.bidHistory]

BidSuccess(data, auction) ==
    [auctionId |-> data.auctionId, currentBid |-> auction.currentBid]

----------------------------------------------------------------------------
(* Bounds and inputs *)

\* place-bid packets pending plus bids accepted, over all auctions: a client
\* sends no further packet once that many are in the queue or in a history
MaxBids == 2

\* the most the clock advances between the two Date.now() calls of one run
\* of the place-bid handler, in milliseconds
MaxHandlerMs == 1

\* the clock readings the model distinguishes: load time, the last
\* millisecond of auction 1, its deadline, the millisecond after
TimePoints == {0, 899999, 900000, 900001}

SocketIds == {<<"s", "1">>, <<"s", "2">>}

Bid(auctionId, bidAmount, bidderName) ==
    [auctionId |-> auctionId, bidAmount |-> bidAmount, bidderName |-> bidderName]

\* the place-bid payloads clients send: those of the browser client (a
\* number and a name) and those any socket.io client can send (a field
\* missing, a string for the amount, an id no auction has)
Payloads ==
    {Bid(Num(1), Num(160), Str(<<"A">>)),
     Bid(Num(1), Num(155), Str(<<"B">>)),
     Bid(Num(1), Num(170), Str(<<"C">>)),
     Bid(Num(1), Num(165), Str(<<>>)),
     Bid(Num(1), Undefined, Undefined),
     Bid(Num(1), Str(<<"2", "0", "0">>), Str(<<"B">>)),
     Bid(Num(4), Num(85), Str(<<" ">>)),
     Bid(Num(9), Num(160), Str(<<"A">>))}

NoData == Bid(Undefined, Undefined, Undefined)

RECURSIVE Accepted(_, _)
Accepted(items, i) ==
    IF i = 0 THEN 0 ELSE Len(items[i].bidHistory) + Accepted(items, i - 1)

----------------------------------------------------------------------------
(* The browser client: App.jsx and the AuctionCard component *)

\* the period of AuctionCard's setInterval, in ms
IntervalMs == 1000

\* Math.max(a, b)
MathMax(a, b) == IF a >= b THEN a ELSE b

\* updateTimer of AuctionCard's effect: the remainingTime it sets
UpdateTimer(endTime, serverTime) ==
    LET timeLeft == endTime - serverTime
    IN  MathMax(0, timeLeft)

\* the setInterval callback of AuctionCard's effect: the remainingTime it
\* sets when Date.now() of the browser is clientNow.  The numbers are
\* integers far below 2^53, so the floating-point sums are exact.
IntervalCallback(endTime, serverTime, clientNow) ==
    LET serverOffset == serverTime - clientNow
        currentServerTime == clientNow + serverOffset
        timeLeft == endTime - currentServerTime
    IN  MathMax(0, timeLeft)

\* isEnded of AuctionCard
IsEnded(remainingTime) == remainingTime <= 0

\* The card of the first auction in one browser.  mounted: initial-sync has
\* filled the auctions state, so the card is rendered; serverTime: App's
\* serverTime state; endTime: auction.endTime; remainingTime: the card's
\* state; clock: the browser's Date.now(); nextTick: when the interval
\* callback is next due.  receivedAt and shownAt record the browser clock at
\* the last setServerTime and the last setRemainingTime; the code reads
\* neither.
NoCard ==
    [mounted |-> FALSE, serverTime |-> 0, endTime |-> 0, remainingTime |-> 0,
     clock |-> 0, nextTick |-> 0, receivedAt |-> 0, shownAt |-> 0]

----------------------------------------------------------------------------
(* The state machine *)

Init ==
    /\ now = 0
    /\ auctionItems = InitialAuctionItems
    /\ sockets = {}
    /\ queue = <<>>
    /\ handled = [handler |-> "listen", socket |-> <<>>, data |-> NoData]
    /\ emitted = <<>>
    /\ card = NoCard

\* time passes between two handlers
Advance ==
    /\ \E t \in TimePoints : t > now /\ now' = t
    /\ UNCHANGED <<auctionItems, sockets, queue, handled, emitted, card>>

\* Connection sending the seed data in place of the store
ConnectionSeedSnapshot(socket) ==
    /\ socket \notin sockets
    /\ sockets' = sockets \cup {socket}
    /\ handled' = [handler |-> "connection", socket |-> socket, data |-> NoData]
    /\ emitted' = <<SocketEmit(socket, "initial-sync",
                               [serverTime |-> now,
                                auctions |-> InitialAuctionItems])>>
    /\ UNCHANGED <<now, auctionItems, queue, card>>

\* io.on('connection')
Connection(socket) ==
    /\ socket \notin sockets
    /\ sockets' = sockets \cup {socket}
    /\ handled' = [handler |-> "connection", socket |-> socket, data |-> NoData]
    /\ emitted' = <<SocketEmit(socket, "initial-sync",
                               [serverTime |-> now, auctions |-> auctionItems])>>
    /\ UNCHANGED <<now, auctionItems, queue, card>>

\* a client's socket.emit('place-bid', data) reaches the server
Submit(socket, data) ==
    /\ socket \in sockets
    /\ Len(queue) + Accepted(auctionItems, Len(auctionItems)) < MaxBids
    /\ queue' = Append(queue, [socket |-> socket, data |-> data])
    /\ UNCHANGED <<now, auctionItems, sockets, handled, emitted, card>>

\* PlaceBidHandler with the assignment to currentBid moved above the checks
PlaceBidHandlerEagerWrite(items, connected, socket, data, t1, t2) ==
    LET i == Find(items, data.auctionId)
        eager == IF i = 0 THEN items
                 ELSE [items EXCEPT ![i].currentBid = data.bidAmount]
    IN  IF i = 0
        THEN [items |-> items, clock |-> t1,
              emits |-> <<SocketEmit(socket, "bid-error", NotFoundError(data))>>]
        ELSE IF HasEnded(t1, items[i])
        THEN [items |-> eager, clock |-> t1,
              emits |-> <<SocketEmit(socket, "bid-error", EndedError(data))>>]
        ELSE IF BelowMinimum(data.bidAmount, MinimumBid(items[i]))
        THEN [items |-> eager, clock |-> t1,
              emits |-> <<SocketEmit(socket, "bid-error",
                                     TooLowError(data, MinimumBid(items[i])))>>]
        ELSE LET auction == ApplyBid(items[i], data, socket, t2)
             IN  [items |-> [items EXCEPT ![i] = auction], clock |-> t2,
                  emits |-> <<IoEmit(connected, "auction-update",
                                     AuctionUpdate(data, auction)),
                              SocketEmit(socket, "bid-success",
                                         BidSuccess(data, auction))>>]

\* PlaceBidHandler with io.emit in place of socket.emit for the bid-errors
PlaceBidHandlerBroadcastingErrors(items, connected, socket, data, t1, t2) ==
    LET i == Find(items, data.auctionId)
    IN  IF i = 0
        THEN [items |-> items, clock |-> t1,
              emits |-> <<IoEmit(connected, "bid-error", NotFoundError(data))>>]
        ELSE IF HasEnded(t1, items[i])
        THEN [items |-> items, clock |-> t1,
              emits |-> <<IoEmit(connected, "bid-error", EndedError(data))>>]
        ELSE IF BelowMinimum(data.bidAmount, MinimumBid(items[i]))
        THEN [items |-> items, clock |-> t1,
              emits |-> <<IoEmit(connected, "bid-error",
                                 TooLowError(data, MinimumBid(items[i])))>>]
        ELSE LET auction == ApplyBid(items[i], data, socket, t2)
             IN  [items |-> [items EXCEPT ![i] = auction], clock |-> t2,
                  emits |-> <<IoEmit(connected, "auction-update",
                                     AuctionUpdate(data, auction)),
                              SocketEmit(socket, "bid-success",
                                         BidSuccess(data, auction))>>]

\* socket.on('place-bid') on one packet: t1 is the Date.now() of the deadline
\* check, t2 the Date.now() of the push.  The store, the emissions and the
\* last clock reading it leaves.
PlaceBidHandler(items, connected, socket, data, t1, t2) ==
    LET i == Find(items, data.auctionId)
    IN  IF i = 0
        THEN [items |-> items, clock |-> t1,
              emits |-> <<SocketEmit(socket, "bid-error", NotFoundError(data))>>]
        ELSE IF HasEnded(t1, items[i])
        THEN [items |-> items, clock |-> t1,
              emits |-> <<SocketEmit(socket, "bid-error", EndedError(data))>>]
        ELSE IF BelowMinimum(data.bidAmount, MinimumBid(items[i]))
        THEN [items |-> items, clock |-> t1,
              emits |-> <<SocketEmit(socket, "bid-error",
                                     TooLowError(data, MinimumBid(items[i])))>>]
        ELSE LET auction == ApplyBid(items[i], data, socket, t2)
             IN  [items |-> [items EXCEPT ![i] = auction], clock |-> t2,
                  emits |-> <<IoEmit(connected, "auction-update",
                                     AuctionUpdate(data, auction)),
                              SocketEmit(socket, "bid-success",
                                         BidSuccess(data, auction))>>]

\* PlaceBid with a rejected packet put back at the end of the queue
PlaceBidRetrying ==
    /\ queue # <<>>
    /\ \E t2 \in TimePoints :
          /\ t2 >= now
          /\ t2 - now <= MaxHandlerMs
          /\ LET socket == Head(queue).socket
                 data == Head(queue).data
                 done == PlaceBidHandler(auctionItems, sockets, socket, data, now, t2)
             IN  /\ auctionItems' = done.items
                 /\ emitted' = done.emits
                 /\ now' = done.clock
                 /\ handled' = [handler |-> "place-bid", socket |-> socket,
                                data |-> data]
                 /\ queue' = IF done.emits[1].event = "bid-error"
                             THEN Append(Tail(queue), Head(queue))
                             ELSE Tail(queue)
    /\ UNCHANGED <<sockets, card>>

\* the event loop runs the handler of the oldest packet to completion
PlaceBid ==
    /\ queue # <<>>
    /\ \E t2 \in TimePoints :
          /\ t2 >= now
          /\ t2 - now <= MaxHandlerMs
          /\ LET socket == Head(queue).socket
                 data == Head(queue).data
                 done == PlaceBidHandler(auctionItems, sockets, socket, data, now, t2)
             IN  /\ auctionItems' = done.items
                 /\ emitted' = done.emits
                 /\ now' = done.clock
                 /\ handled' = [handler |-> "place-bid", socket |-> socket,
                                data |-> data]
    /\ queue' = Tail(queue)
    /\ UNCHANGED <<sockets, card>>

\* Disconnect withdrawing the bids recorded under the leaving socket's id
DisconnectWithdrawingBids(socket) ==
    /\ socket \in sockets
    /\ \A k \in 1..Len(queue) : queue[k].socket # socket
    /\ sockets' = sockets \ {socket}
    /\ handled' = [handler |-> "disconnect", socket |-> socket, data |-> NoData]
    /\ emitted' = <<>>
    /\ auctionItems' =
          [i \in 1..Len(auctionItems) |->
              LET kept(entry) == entry.bidder # Str(socket)
              IN  [auctionItems[i] EXCEPT !.bidHistory = SelectSeq(@, kept)]]
    /\ UNCHANGED <<now, queue, card>>

\* socket.on('disconnect'): it follows every packet the socket sent
Disconnect(socket) ==
    /\ socket \in sockets
    /\ \A k \in 1..Len(queue) : queue[k].socket # socket
    /\ sockets' = sockets \ {socket}
    /\ handled' = [handler |-> "disconnect", socket |-> socket, data |-> NoData]
    /\ emitted' = <<>>
    /\ UNCHANGED <<now, auctionItems, queue, card>>

\* TimeSync held back while a packet is waiting for its handler
TimeSyncWhenIdle ==
    /\ queue = <<>>
    /\ handled' = [handler |-> "time-sync", socket |-> <<>>, data |-> NoData]
    /\ emitted' = <<IoEmit(sockets, "time-sync", [serverTime |-> now])>>
    /\ UNCHANGED <<now, auctionItems, sockets, queue, card>>

\* the setInterval callback
TimeSync ==
    /\ handled' = [handler |-> "time-sync", socket |-> <<>>, data |-> NoData]
    /\ emitted' = <<IoEmit(sockets, "time-sync", [serverTime |-> now])>>
    /\ UNCHANGED <<now, auctionItems, sockets, queue, card>>

Next ==
    \/ Advance
    \/ \E socket \in SocketIds : Connection(socket)
    \/ \E socket \in SocketIds, data \in Payloads : Submit(socket, data)
    \/ PlaceBid
    \/ \E socket \in SocketIds : Disconnect(socket)
    \/ TimeSync

Spec == Init /\ [][Next]_vars

\* the timer of setInterval is never starved: the event loop runs its
\* callback again whenever it stays due
FairSpec == Spec /\ WF_vars(TimeSync)

----------------------------------------------------------------------------
(* The server with one browser client *)

\* the server clock when the browser is opened, and when the run is cut
ClientStart == 897000
ClientHorizon == 903000

\* the step by which both clocks advance
Quantum == 500

\* browser clock minus server clock
ClockSkews == {0 - 2500, 0, 4000}

BrowserSocket == <<"s", "1">>

ClientInit ==
    /\ now = ClientStart
    /\ auctionItems = InitialAuctionItems
    /\ sockets = {}
    /\ queue = <<>>
    /\ handled = [handler |-> "listen", socket |-> <<>>, data |-> NoData]
    /\ emitted = <<>>
    /\ \E skew \in ClockSkews : card = [NoCard EXCEPT !.clock = ClientStart + skew]

\* both clocks advance; the interval callback runs as soon as it is due
ClientAdvance ==
    /\ now + Quantum <= ClientHorizon
    /\ card.mounted => card.clock + Quantum <= card.nextTick
    /\ now' = now + Quantum
    /\ card' = [card EXCEPT !.clock = @ + Quantum]
    /\ UNCHANGED <<auctionItems, sockets, queue, handled, emitted>>

\* newSocket.on('initial-sync'): setServerTime and setAuctions; the card is
\* rendered and its effect runs updateTimer and starts the interval
ReceiveInitialSync ==
    /\ ~card.mounted
    /\ emitted # <<>>
    /\ emitted[1].event = "initial-sync"
    /\ BrowserSocket \in emitted[1].to
    /\ LET data == emitted[1].payload
           auction == data.auctions[1]
       IN  card' = [card EXCEPT
                       !.mounted = TRUE,
                       !.serverTime = data.serverTime,
                       !.endTime = auction.endTime,
                       !.remainingTime = UpdateTimer(auction.endTime, data.serverTime),
                       !.nextTick = card.clock + IntervalMs,
                       !.receivedAt = card.clock,
                       !.shownAt = card.clock]
    /\ UNCHANGED <<now, auctionItems, sockets, queue, handled, emitted>>

\* newSocket.on('time-sync'): setServerTime; a new value makes the card's
\* effect run again, updateTimer and a fresh interval.  Packets arrive in
\* order, so never before the initial-sync.
ReceiveTimeSync ==
    /\ card.mounted
    /\ emitted # <<>>
    /\ emitted[1].event = "time-sync"
    /\ BrowserSocket \in emitted[1].to
    /\ emitted[1].payload.serverTime # card.serverTime
    /\ LET data == emitted[1].payload
       IN  card' = [card EXCEPT
                       !.serverTime = data.serverTime,
                       !.remainingTime = UpdateTimer(card.endTime, data.serverTime),
                       !.nextTick = card.clock + IntervalMs,
                       !.receivedAt = card.clock,
                       !.shownAt = card.clock]
    /\ UNCHANGED <<now, auctionItems, sockets, queue, handled, emitted>>

\* the card's setInterval callback
CardTick ==
    /\ card.mounted
    /\ card.clock >= card.nextTick
    /\ card' = [card EXCEPT
                   !.remainingTime = IntervalCallback(card.endTime, card.serverTime,
                                                      card.clock),
                   !.nextTick = @ + IntervalMs,
                   !.shownAt = card.clock]
    /\ UNCHANGED <<now, auctionItems, sockets, queue, handled, emitted>>

ClientNext ==
    \/ ClientAdvance
    \/ Connection(BrowserSocket)
    \/ TimeSync
    \/ ReceiveInitialSync
    \/ ReceiveTimeSync
    \/ CardTick

ClientSpec == ClientInit /\ [][ClientNext]_vars

----------------------------------------------------------------------------
(* Vocabulary of the properties *)

Last(s) == s[Len(s)]

IsNumber(v) == v.t = "number"

AuctionIndexes == 1..Len(InitialAuctionItems)

\* the step is one run of the place-bid handler, on the packet Head(queue)
PlaceBidStep == queue # <<>> /\ queue' = Tail(queue)

\* the auction the packet about to be handled names, 0 if none
Target == Find(auctionItems, Head(queue).data.auctionId)

\* ems is one bid-error, to that socket alone, whose message starts with text
IsBidError(ems, socket, text) ==
    /\ Len(ems) = 1
    /\ ems[1].event = "bid-error"
    /\ ems[1].to = {socket}
    /\ ems[1].payload.message[1] = text

HasMinimumBid(ems) == "minimumBid" \in DOMAIN ems[1].payload

\* the handler that ran last was place-bid and it answered with that bid-error
Rejected(text) ==
    /\ handled.handler = "place-bid"
    /\ IsBidError(emitted, handled.socket, text)

\* a >= b as numbers
NumberAtLeast(a, b) ==
    LET x == ToNumber(a)
        y == ToNumber(b)
    IN  x.t = "number" /\ y.t = "number" /\ x.n >= y.n

NumericHistory(auction) ==
    \A k \in 1..Len(auction.bidHistory) : IsNumber(auction.bidHistory[k].amount)

----------------------------------------------------------------------------
(* C1: the read-validate-apply sequence of a place-bid handler is never     *)
(* interleaved with another handler.  The store changes only in a step of    *)
(* the place-bid handler; the bid such a step accepts clears the minimum of  *)
(* the store as it is at the write, not of an earlier copy; and the write    *)
(* extends the history of that same store by exactly this bid, so each       *)
(* accepted bid was validated at its own position of the history.            *)
C1_NoInterleaving ==
    [][/\ auctionItems' # auctionItems => PlaceBidStep
       /\ PlaceBidStep =>
             \A i \in AuctionIndexes :
                auctionItems'[i] # auctionItems[i] =>
                   /\ i = Target
                   /\ ~Less(Head(queue).data.bidAmount,
                            Add(auctionItems[i].currentBid,
                                auctionItems[i].minimumIncrement))
                   /\ Len(auctionItems'[i].bidHistory)
                         = Len(auctionItems[i].bidHistory) + 1
                   /\ SubSeq(auctionItems'[i].bidHistory, 1,
                             Len(auctionItems[i].bidHistory))
                         = auctionItems[i].bidHistory
                   /\ Last(auctionItems'[i].bidHistory).amount
                         = Head(queue).data.bidAmount]_vars

\* two bids were accepted on auction 1, one after the other
C1_Witness ==
    /\ handled.handler = "place-bid"
    /\ Len(emitted) = 2
    /\ Len(auctionItems[1].bidHistory) = 2

(* C2: in every state, every entry of a bidHistory is at least the entry    *)
(* before it plus minimumIncrement, and the first entry at least the seed    *)
(* currentBid plus minimumIncrement.                                         *)
C2_Monotonic ==
    \A i \in AuctionIndexes :
       \A k \in 1..Len(auctionItems[i].bidHistory) :
          LET previous == IF k = 1 THEN InitialAuctionItems[i].currentBid
                          ELSE auctionItems[i].bidHistory[k - 1].amount
          IN  NumberAtLeast(auctionItems[i].bidHistory[k].amount,
                            Add(previous, auctionItems[i].minimumIncrement))

(* C3: a place-bid on an existing auction handled when the clock reads the  *)
(* auction's endTime or later is answered with the 'Auction has ended'       *)
(* bid-error, whatever its amount, and changes nothing in the store.         *)
C3_DeadlineExact ==
    [][(PlaceBidStep /\ Target # 0 /\ now >= auctionItems[Target].endTime) =>
          /\ emitted' = <<SocketEmit(Head(queue).socket, "bid-error",
                            [message |-> <<"Auction has ended">>,
                             auctionId |-> Head(queue).data.auctionId])>>
          /\ auctionItems' = auctionItems]_vars

\* a bid below the minimum, handled at the very deadline, was told 'ended'
C3_Witness ==
    /\ Rejected("Auction has ended")
    /\ handled.data.auctionId = Num(1)
    /\ handled.data.bidAmount = Num(155)
    /\ now = auctionItems[1].endTime

(* C4: every entry of a bidHistory carries a timestamp strictly before the  *)
(* auction's endTime.                                                        *)
C4_TimestampBeforeEnd ==
    \A i \in AuctionIndexes :
       \A k \in 1..Len(auctionItems[i].bidHistory) :
          auctionItems[i].bidHistory[k].timestamp < auctionItems[i].endTime

(* C5: no lost update.  Of bids with numeric amounts valid against the seed *)
(* price, the first handled on an auction is accepted against the seed       *)
(* price, and each later one is decided against the amount accepted last     *)
(* plus minimumIncrement, a higher threshold than the seed's: accepted if it *)
(* reaches it, turned away with the too-low bid-error naming it otherwise.   *)
C5_NoLostUpdate ==
    [][(/\ PlaceBidStep
        /\ Target # 0
        /\ ~(now >= auctionItems[Target].endTime)
        /\ NumericHistory(auctionItems[Target])
        /\ IsNumber(Head(queue).data.bidAmount)
        /\ Head(queue).data.bidAmount.n
              >= InitialAuctionItems[Target].currentBid.n
                    + InitialAuctionItems[Target].minimumIncrement.n) =>
          LET auction == auctionItems[Target]
              amount == Head(queue).data.bidAmount.n
              seedMinimum == InitialAuctionItems[Target].currentBid.n
                                + InitialAuctionItems[Target].minimumIncrement.n
              threshold == IF auction.bidHistory = <<>> THEN seedMinimum
                           ELSE Last(auction.bidHistory).amount.n
                                   + auction.minimumIncrement.n
          IN  /\ auction.bidHistory # <<>> => threshold > seedMinimum
              /\ amount >= threshold =>
                    /\ Len(auctionItems'[Target].bidHistory)
                          = Len(auction.bidHistory) + 1
                    /\ Last(auctionItems'[Target].bidHistory).amount = Num(amount)
              /\ amount < threshold =>
                    /\ IsBidError(emitted', Head(queue).socket,
                                  "Bid must be at least $")
                    /\ emitted'[1].payload.minimumBid = Num(threshold)
                    /\ auctionItems' = auctionItems]_vars

\* 160 and 170 were both valid against the seed 150; 170 was handled first
\* and 160 was then turned away against 170 + 10
C5_Witness ==
    /\ Rejected("Bid must be at least $")
    /\ handled.data.auctionId = Num(1)
    /\ handled.data.bidAmount = Num(160)
    /\ emitted[1].payload.minimumBid = Num(180)
    /\ Len(auctionItems[1].bidHistory) = 1

(* C6: in every state, an auction's currentBid is the amount of the last    *)
(* entry of its bidHistory, or its seed value when the history is empty.     *)
C6_CurrentBidIsLastAmount ==
    \A i \in AuctionIndexes :
       auctionItems[i].currentBid
          = IF auctionItems[i].bidHistory = <<>>
            THEN InitialAuctionItems[i].currentBid
            ELSE Last(auctionItems[i].bidHistory).amount

C6_Witness ==
    /\ Len(auctionItems[1].bidHistory) = 2
    /\ auctionItems[1].currentBid = Num(170)
    /\ auctionItems[4].currentBid = Num(80)

(* C7: in every state, an auction's highestBidder is the bidder of the last *)
(* entry of its bidHistory, and it is null exactly when the history is       *)
(* empty.                                                                    *)
C7_HighestBidderIsLastBidder ==
    \A i \in AuctionIndexes :
       /\ auctionItems[i].bidHistory # <<>> =>
             auctionItems[i].highestBidder = Last(auctionItems[i].bidHistory).bidder
       /\ auctionItems[i].highestBidder = Null <=> auctionItems[i].bidHistory = <<>>

\* a bid sent with an empty bidderName leads auction 1 under its socket's id
C7_Witness ==
    /\ auctionItems[1].bidHistory # <<>>
    /\ Last(auctionItems[1].bidHistory).amount = Num(165)
    /\ auctionItems[1].highestBidder.t = "string"
    /\ auctionItems[1].highestBidder.s \in SocketIds
    /\ auctionItems[2].highestBidder = Null

(* C8: for an existing auction before its deadline, a place-bid is turned   *)
(* away as too low exactly when bidAmount < currentBid + minimumIncrement    *)
(* (a bid equal to that sum is accepted), the bid-error then carries         *)
(* minimumBid = currentBid + minimumIncrement of the store as it is when the *)
(* bid is handled, and no other bid-error has a minimumBid.  For numbers,    *)
(* < and + are those of arithmetic.                                          *)
C8_PriceCheck ==
    [][PlaceBidStep =>
          LET data == Head(queue).data
              tooLow == IsBidError(emitted', Head(queue).socket,
                                   "Bid must be at least $")
          IN  /\ emitted'[1].event = "bid-error" => (HasMinimumBid(emitted') <=> tooLow)
              /\ (Target # 0 /\ ~(now >= auctionItems[Target].endTime)) =>
                    LET auction == auctionItems[Target]
                        sum == Add(auction.currentBid, auction.minimumIncrement)
                    IN  /\ tooLow <=> Less(data.bidAmount, sum)
                        /\ tooLow => emitted'[1].payload.minimumBid = sum
                        /\ ~tooLow => auctionItems'[Target].currentBid = data.bidAmount
                        /\ (IsNumber(data.bidAmount) /\ IsNumber(auction.currentBid)) =>
                              /\ sum = Num(auction.currentBid.n
                                              + auction.minimumIncrement.n)
                              /\ tooLow <=> data.bidAmount.n
                                               < auction.currentBid.n
                                                    + auction.minimumIncrement.n]_vars

\* a bid of exactly 150 + 10 was accepted
C8_Witness ==
    /\ handled.handler = "place-bid"
    /\ handled.data.bidAmount = Num(160)
    /\ Len(emitted) = 2
    /\ emitted[2].event = "bid-success"
    /\ auctionItems[1].bidHistory = <<[amount |-> Num(160), bidder |-> Str(<<"A">>),
                                       timestamp |-> 0]>>

(* C9: a rejected place-bid leaves the whole store as it was, and a step    *)
(* never leaves an auction partly updated: currentBid, highestBidder and the *)
(* new history entry change together or not at all.                          *)
C9_RejectionChangesNothing ==
    [][PlaceBidStep =>
          /\ emitted'[1].event = "bid-error" => auctionItems' = auctionItems
          /\ \A i \in AuctionIndexes :
                \/ auctionItems'[i] = auctionItems[i]
                \/ /\ Len(auctionItems'[i].bidHistory)
                         = Len(auctionItems[i].bidHistory) + 1
                   /\ auctionItems'[i].currentBid
                         = Last(auctionItems'[i].bidHistory).amount
                   /\ auctionItems'[i].highestBidder
                         = Last(auctionItems'[i].bidHistory).bidder]_vars

\* a too-low bid was turned away on an auction that already has a bid
C9_Witness ==
    /\ Rejected("Bid must be at least $")
    /\ handled.data.auctionId = Num(1)
    /\ Len(auctionItems[1].bidHistory) = 1
    /\ auctionItems[1].currentBid = Num(170)

(* C10: permanent closure.  Once the clock has reached an auction's endTime *)
(* it stays there, the auction never changes again, every place-bid on it    *)
(* is answered 'Auction has ended', and the auction stays in the store.      *)
C10_PermanentClosure ==
    [][\A i \in AuctionIndexes :
          now >= auctionItems[i].endTime =>
             /\ now' >= auctionItems'[i].endTime
             /\ Len(auctionItems') = Len(auctionItems)
             /\ auctionItems'[i] = auctionItems[i]
             /\ (PlaceBidStep /\ Target = i) =>
                   IsBidError(emitted', Head(queue).socket, "Auction has ended")]_vars

\* past the deadline of auction 1, which closed with one bid, a bid that
\* would clear the price was turned away
C10_Witness ==
    /\ Rejected("Auction has ended")
    /\ now > auctionItems[1].endTime
    /\ handled.data.auctionId = Num(1)
    /\ handled.data.bidAmount = Num(170)
    /\ auctionItems[1].currentBid = Num(160)

(* C11: idempotent rejection.  A bid that was turned away as too low and is *)
(* sent again unchanged by the same socket, and handled as the server's next *)
(* event while the auction is still open, gets the same too-low bid-error    *)
(* with the same minimumBid, and the store does not change.                  *)
C11_IdempotentRejectionWhileOpen ==
    [][(/\ PlaceBidStep
        /\ Rejected("Bid must be at least $")
        /\ Head(queue) = [socket |-> handled.socket, data |-> handled.data]
        /\ ~(now >= auctionItems[Target].endTime)) =>
          /\ emitted' = emitted
          /\ auctionItems' = auctionItems]_vars

\* the statement without the condition on the deadline
C11_IdempotentRejection ==
    [][(/\ PlaceBidStep
        /\ Rejected("Bid must be at least $")
        /\ Head(queue) = [socket |-> handled.socket, data |-> handled.data]) =>
          /\ emitted' = emitted
          /\ auctionItems' = auctionItems]_vars

\* 155 was turned away as too low, the auction is open, and the same packet
\* from the same socket is the next the server handles
C11_Witness ==
    /\ Rejected("Bid must be at least $")
    /\ handled.data.bidAmount = Num(155)
    /\ queue # <<>>
    /\ Head(queue) = [socket |-> handled.socket, data |-> handled.data]
    /\ now < auctionItems[1].endTime

(* C12: notification routing.  A place-bid that changes the store emits      *)
(* exactly one auction-update, to every socket connected at the time, the    *)
(* submitter among them, and exactly one bid-success, to the submitter       *)
(* alone; a place-bid that leaves the store alone emits exactly one          *)
(* bid-error, to the submitter alone.                                        *)
C12_NotificationRouting ==
    [][PlaceBidStep =>
          LET socket == Head(queue).socket
          IN  \/ /\ auctionItems' # auctionItems
                 /\ Len(emitted') = 2
                 /\ emitted'[1].event = "auction-update"
                 /\ emitted'[1].to = sockets
                 /\ socket \in sockets
                 /\ emitted'[2].event = "bid-success"
                 /\ emitted'[2].to = {socket}
              \/ /\ auctionItems' = auctionItems
                 /\ Len(emitted') = 1
                 /\ emitted'[1].event = "bid-error"
                 /\ emitted'[1].to = {socket}]_vars

\* a bid was accepted with two sockets connected: the update went to both,
\* the bid-success to the submitter only
C12_Witness ==
    /\ handled.handler = "place-bid"
    /\ Len(emitted) = 2
    /\ emitted[1].to = SocketIds
    /\ emitted[2].to = {handled.socket}

C14_SnapshotConsistency ==
    handled.handler = "connection" =>
       /\ Len(emitted) = 1
       /\ emitted[1].event = "initial-sync"
       /\ emitted[1].to = {handled.socket}
       /\ emitted[1].payload.auctions = auctionItems
       /\ \A i \in AuctionIndexes :
             LET auction == emitted[1].payload.auctions[i]
                 K == Len(auction.bidHistory)
             IN  /\ K = Len(auctionItems[i].bidHistory)
                 /\ K = 0 => /\ auction.currentBid = InitialAuctionItems[i].currentBid
                             /\ auction.highestBidder = Null
                 /\ K > 0 => /\ auction.currentBid = auction.bidHistory[K].amount
                             /\ auction.highestBidder = auction.bidHistory[K].bidder

\* a socket connected after two bids had been accepted on auction 1
C14_Witness ==
    /\ handled.handler = "connection"
    /\ Len(emitted[1].payload.auctions[1].bidHistory) = 2
    /\ emitted[1].payload.auctions[1].currentBid = Num(170)

\* a history entry without its timestamp
ByBidder(entry) == [amount |-> entry.amount, bidder |-> entry.bidder]

(* C15: the scenario on auction 1.  It is seeded with currentBid 150 and    *)
(* minimumIncrement 10.  Before the deadline, A's 160 on the fresh auction   *)
(* is accepted (currentBid 160, highestBidder A); B's 155 after it is        *)
(* rejected as too low with minimumBid 170; C's 170 after it is accepted     *)
(* (currentBid 170, highestBidder C) and the history is 160 by A, 170 by C.  *)
(* A bid of 165 handled after endTime is rejected with 'Auction has ended'.  *)
C15_Scenario ==
    [][/\ InitialAuctionItems[1].currentBid = Num(150)
       /\ InitialAuctionItems[1].minimumIncrement = Num(10)
       /\ (PlaceBidStep /\ Target = 1) =>
             LET data == Head(queue).data
                 socket == Head(queue).socket
                 open == now < auctionItems[1].endTime
                 afterA == /\ Len(auctionItems[1].bidHistory) = 1
                           /\ ByBidder(auctionItems[1].bidHistory[1])
                                 = [amount |-> Num(160), bidder |-> Str(<<"A">>)]
             IN  /\ (/\ open
                     /\ auctionItems[1] = InitialAuctionItems[1]
                     /\ data = Bid(Num(1), Num(160), Str(<<"A">>))) =>
                        /\ auctionItems'[1].currentBid = Num(160)
                        /\ auctionItems'[1].highestBidder = Str(<<"A">>)
                        /\ emitted'[2] = SocketEmit(socket, "bid-success",
                                            [auctionId |-> Num(1),
                                             currentBid |-> Num(160)])
                 /\ (/\ open
                     /\ afterA
                     /\ data = Bid(Num(1), Num(155), Str(<<"B">>))) =>
                        /\ IsBidError(emitted', socket, "Bid must be at least $")
                        /\ emitted'[1].payload.minimumBid = Num(170)
                        /\ emitted'[1].payload.message[2] = <<"1", "7", "0">>
                        /\ auctionItems' = auctionItems
                 /\ (/\ open
                     /\ afterA
                     /\ data = Bid(Num(1), Num(170), Str(<<"C">>))) =>
                        /\ auctionItems'[1].currentBid = Num(170)
                        /\ auctionItems'[1].highestBidder = Str(<<"C">>)
                        /\ Len(auctionItems'[1].bidHistory) = 2
                        /\ ByBidder(auctionItems'[1].bidHistory[1])
                              = [amount |-> Num(160), bidder |-> Str(<<"A">>)]
                        /\ ByBidder(auctionItems'[1].bidHistory[2])
                              = [amount |-> Num(170), bidder |-> Str(<<"C">>)]
                 /\ (/\ now > auctionItems[1].endTime
                     /\ data.bidAmount = Num(165)) =>
                        /\ IsBidError(emitted', socket, "Auction has ended")
                        /\ auctionItems' = auctionItems]_vars

\* C's 170 was accepted after A's 160, and the history is 160 by A, 170 by C
C15_Witness ==
    /\ handled.handler = "place-bid"
    /\ handled.data = Bid(Num(1), Num(170), Str(<<"C">>))
    /\ Len(emitted) = 2
    /\ Len(auctionItems[1].bidHistory) = 2
    /\ ByBidder(auctionItems[1].bidHistory[1])
          = [amount |-> Num(160), bidder |-> Str(<<"A">>)]
    /\ ByBidder(auctionItems[1].bidHistory[2])
          = [amount |-> Num(170), bidder |-> Str(<<"C">>)]

\* the step is one run of the setInterval callback
TimeSyncStep ==
    /\ handled'.handler = "time-sync"
    /\ handled' # handled \/ emitted' # emitted

(* C16: the time-sync tick is independent of bid handling.  With the timer  *)
(* never starved, a time-sync broadcast is the server's latest event again   *)
(* and again, whatever packets are sent, accepted or rejected; a tick is one *)
(* time-sync to every connected socket carrying the clock and changes no     *)
(* auction, no pending packet and no connection; and a place-bid on an       *)
(* auction of the store is answered 'Auction has ended' exactly when the     *)
(* clock read by the handler has reached endTime, whatever serverTime the    *)
(* last tick broadcast.                                                       *)
C16_TickIndependent ==
    /\ []<>(handled.handler = "time-sync")
    /\ [][TimeSyncStep =>
             /\ emitted' = <<IoEmit(sockets, "time-sync", [serverTime |-> now])>>
             /\ UNCHANGED <<auctionItems, queue, sockets, now>>]_vars
    /\ [][(PlaceBidStep /\ Target # 0) =>
             (IsBidError(emitted', Head(queue).socket, "Auction has ended")
                 <=> now >= auctionItems[Target].endTime)]_vars

\* the last tick broadcast a serverTime before the deadline of auction 1, the
\* clock has since reached it, a bid on auction 1 is waiting, and an earlier
\* bid was accepted
C16_Witness ==
    /\ handled.handler = "time-sync"
    /\ emitted[1].payload.serverTime < auctionItems[1].endTime
    /\ now >= auctionItems[1].endTime
    /\ queue # <<>>
    /\ Target = 1
    /\ Len(auctionItems[1].bidHistory) = 1

\* s is t itself or t with entries added at the end
IsPrefix(s, t) == Len(s) <= Len(t) /\ SubSeq(t, 1, Len(s)) = s

(* C17: frame of an accepted bid.  In every step each auction keeps its id, *)
(* minimumIncrement and endTime and its earlier history as a prefix of the   *)
(* later one; a place-bid step that accepts a bid on auction a adds exactly  *)
(* one entry at the end of a's history and leaves every other auction, and   *)
(* the number of auctions, as they were.                                      *)
C17_AcceptedBidFrame ==
    [][/\ Len(auctionItems') = Len(auctionItems)
       /\ \A i \in AuctionIndexes :
             /\ auctionItems'[i].id = auctionItems[i].id
             /\ auctionItems'[i].minimumIncrement = auctionItems[i].minimumIncrement
             /\ auctionItems'[i].endTime = auctionItems[i].endTime
             /\ IsPrefix(auctionItems[i].bidHistory, auctionItems'[i].bidHistory)
             /\ DOMAIN auctionItems'[i] = DOMAIN auctionItems[i]
       /\ (PlaceBidStep /\ auctionItems' # auctionItems) =>
             /\ Target # 0
             /\ Len(auctionItems'[Target].bidHistory)
                   = Len(auctionItems[Target].bidHistory) + 1
             /\ \A i \in AuctionIndexes \ {Target} :
                   auctionItems'[i] = auctionItems[i]]_vars

\* a bid was accepted on auction 4 while auction 1 holds an earlier bid
C17_Witness ==
    /\ handled.handler = "place-bid"
    /\ handled.data.auctionId = Num(4)
    /\ Len(emitted) = 2
    /\ Len(auctionItems[4].bidHistory) = 1
    /\ Len(auctionItems[1].bidHistory) = 1

\* the step is one run of a socket's disconnect handler
DisconnectStep == handled'.handler = "disconnect" /\ sockets' # sockets

(* C18: a disconnect never undoes or alters a mutation.  The disconnect     *)
(* handler leaves the store exactly as it was, whatever the leaving socket   *)
(* had bid and whatever was answered to it last; the entries of a history    *)
(* stay in it from then on; and what the server sends next about that        *)
(* auction, an auction-update or an initial-sync, carries the history of the *)
(* store with those entries in it.                                            *)
C18_DisconnectKeepsBids ==
    [][/\ DisconnectStep => auctionItems' = auctionItems
       /\ \A i \in AuctionIndexes :
             IsPrefix(auctionItems[i].bidHistory, auctionItems'[i].bidHistory)
       /\ \A k \in 1..Len(emitted') :
             /\ (emitted'[k].event = "initial-sync" /\ emitted' # emitted) =>
                   emitted'[k].payload.auctions = auctionItems'
             /\ (emitted'[k].event = "auction-update" /\ PlaceBidStep) =>
                   emitted'[k].payload.bidHistory = auctionItems'[Target].bidHistory]_vars

\* the socket whose bid stands on auction 1 under its own id has disconnected
\* right after the bid-success was emitted to it
C18_Witness ==
    /\ handled.handler = "disconnect"
    /\ handled.socket \notin sockets
    /\ auctionItems[1].highestBidder = Str(handled.socket)
    /\ Len(auctionItems[1].bidHistory) = 1
    /\ auctionItems[1].bidHistory[1].bidder = Str(handled.socket)

\* a bidderName that is missing, empty or made of whitespace only
IsBlank(name) ==
    \/ name.t \in {"undefined", "null"}
    \/ name.t = "string" /\ TrimLeft(TrimRight(name.s)) = <<>>

(* C19: bidder-name defaulting.  When a place-bid is accepted, the          *)
(* highestBidder and the bidder of the new history entry are the same value: *)
(* the submitting socket's id if the bidderName is missing, empty or         *)
(* whitespace-only, the bidderName otherwise; never a blank value.           *)
C19_BidderNameDefaulting ==
    [][(PlaceBidStep /\ auctionItems' # auctionItems) =>
          LET data == Head(queue).data
              socket == Head(queue).socket
              auction == auctionItems'[Target]
              name == IF IsBlank(data.bidderName) THEN Str(socket)
                      ELSE data.bidderName
          IN  /\ auction.highestBidder = name
              /\ Last(auction.bidHistory).bidder = name
              /\ ~IsBlank(auction.highestBidder)]_vars

\* a > b as numbers
NumberAbove(a, b) ==
    LET x == ToNumber(a)
        y == ToNumber(b)
    IN  x.t = "number" /\ y.t = "number" /\ x.n > y.n

(* C20: broadcast order follows acceptance order.  An auction-update is     *)
(* emitted only by the handler run that accepts a bid, after the store was   *)
(* written: the i-th accepted bid of an auction emits the i-th update, which *)
(* carries that bid's amount as currentBid, its bidder as highestBidder and  *)
(* the history of length i; and its currentBid is above the one the update   *)
(* before it carried, the amount of the i-1-th entry.                        *)
C20_BroadcastOrder ==
    [][/\ (\E k \in 1..Len(emitted') : /\ emitted'[k].event = "auction-update"
                                        /\ emitted' # emitted) =>
             PlaceBidStep /\ auctionItems' # auctionItems
       /\ (PlaceBidStep /\ auctionItems' # auctionItems) =>
             LET auction == auctionItems'[Target]
                 i == Len(auctionItems[Target].bidHistory) + 1
                 update == emitted'[1]
             IN  /\ update.event = "auction-update"
                 /\ update.payload.auctionId = Head(queue).data.auctionId
                 /\ update.payload.currentBid = Head(queue).data.bidAmount
                 /\ update.payload.currentBid = auction.currentBid
                 /\ update.payload.highestBidder = auction.highestBidder
                 /\ update.payload.bidHistory = auction.bidHistory
                 /\ Len(update.payload.bidHistory) = i
                 /\ update.payload.highestBidder = update.payload.bidHistory[i].bidder
                 /\ i > 1 => NumberAbove(update.payload.currentBid,
                                         auctionItems[Target].bidHistory[i - 1].amount)]_vars

\* C20 without its last conjunct: order and content of the updates alone
BroadcastCarriesAcceptedState ==
    [][/\ (\E k \in 1..Len(emitted') : /\ emitted'[k].event = "auction-update"
                                        /\ emitted' # emitted) =>
             PlaceBidStep /\ auctionItems' # auctionItems
       /\ (PlaceBidStep /\ auctionItems' # auctionItems) =>
             LET auction == auctionItems'[Target]
                 i == Len(auctionItems[Target].bidHistory) + 1
                 update == emitted'[1]
             IN  /\ update.event = "auction-update"
                 /\ update.payload.currentBid = Head(queue).data.bidAmount
                 /\ update.payload.currentBid = auction.currentBid
                 /\ update.payload.highestBidder = auction.highestBidder
                 /\ update.payload.bidHistory = auction.bidHistory
                 /\ Len(update.payload.bidHistory) = i]_vars

(* C21: numeric integrity of acceptance.  Whatever payload a client sends,  *)
(* a place-bid is accepted only if its bidAmount is a number and at least    *)
(* the number currentBid + minimumIncrement; hence in every reachable state  *)
(* the currentBid a step leaves in any auction is a number, at least its     *)
(* seed value.                                                               *)
C21_NumericAcceptance ==
    [][/\ \A i \in AuctionIndexes :
             /\ IsNumber(auctionItems'[i].currentBid)
             /\ auctionItems'[i].currentBid.n >= InitialAuctionItems[i].currentBid.n
       /\ (PlaceBidStep /\ auctionItems' # auctionItems) =>
             LET bidAmount == Head(queue).data.bidAmount
                 auction == auctionItems[Target]
             IN  /\ IsNumber(bidAmount)
                 /\ IsNumber(auction.currentBid)
                 /\ bidAmount.n >= auction.currentBid.n + auction.minimumIncrement.n]_vars

(* C22: client countdown.  Whenever the card has set its remainingTime, at   *)
(* the receipt of a serverTime or at a run of its interval callback, the     *)
(* value shown is max(0, endTime - estimate), where the estimate of the      *)
(* server time is the last serverTime received plus the browser-clock time   *)
(* elapsed between its receipt and that moment; so the card is ended as soon *)
(* as the estimate reaches endTime.                                           *)
C22_ClientCountdown ==
    card.mounted =>
       LET estimate == card.serverTime + (card.shownAt - card.receivedAt)
       IN  /\ card.remainingTime = MathMax(0, card.endTime - estimate)
           /\ estimate >= card.endTime => IsEnded(card.remainingTime)

\* what the card shows instead: the time left at the last serverTime received
CardShowsLastSync ==
    card.mounted => card.remainingTime = MathMax(0, card.endTime - card.serverTime)

====
